---- MODULE Spec2Model ----
(***************************************************************************)
(* Model of the feedback page (Index): the dashboard (AdminPanel) with     *)
(* the in-memory record list `feedbacks`, its bulk load (fetchFeedbacks),  *)
(* the realtime INSERT subscription, the render-time statistics, the       *)
(* filtered and sorted list view and the export; the customer form         *)
(* (CustomerForm); and the switch between the two, which unmounts one and  *)
(* mounts the other.                                                       *)
(*                                                                         *)
(* Numbers.  Scores are integers.  The numbers the statistics compute      *)
(* (the averages, their sum, the overall average, the mean of a record,    *)
(* the recurrence ratio) are doubles, computed with the rounding of IEEE   *)
(* 754: the six averages 4, 13/3, 11/3, 13/3, 10/3, 10/3 add up to         *)
(* 22.999999999999996.  The sort comparator is kept by its sign, that of   *)
(* the difference of the two score sums.  Math.round(x) is floor(x + 1/2). *)
(* A score of 0 on the form is an unrated criterion; a score column of a   *)
(* row may hold null, which counts as 0 in a sum and is written as an      *)
(* empty cell.  created_at is kept as the integer that                     *)
(* new Date(created_at).getTime() yields.                                  *)
(***************************************************************************)
EXTENDS Integers, Sequences, FiniteSets, Bags, TLC

VARIABLES
    db,               \* rows of table public.feedbacks, in insertion order
    subscribed,       \* the realtime channel is joined
    channel,          \* ids of rows whose INSERT event the channel carries
    notified,         \* ids whose INSERT event was delivered at least once
    fetchState,       \* position of fetchFeedbacks
    data,             \* rows read by the select of fetchFeedbacks
    feedbacks,        \* React state: the record list
    loading,          \* React state
    sortBy,           \* React state
    minRatingFilter,  \* React state
    stats,            \* statistics computed by the last render
    view,             \* list shown by the last render
    csv,              \* content of the last exported file
    customer,         \* CustomerForm state: the four customer fields
    ratings,          \* CustomerForm state: six scores and the comment
    isSubmitting,     \* CustomerForm state
    toastTitle,       \* title of the last toast raised
    activeView,       \* Index state: which of form and panel is mounted
    awaited           \* bag of awaited calls: the inserts sent by a form, and
                      \* the selects of panels unmounted since

vars == <<db, subscribed, channel, notified, fetchState, data, feedbacks,
          loading, sortBy, minRatingFilter, stats, view,
          csv, customer, ratings, isSubmitting, toastTitle,
          activeView, awaited>>

\* the state of the Index page and of the calls that outlive a component
pageVars == <<activeView, awaited>>


---------------------------------------------------------------------------
(* Bounds *)

MaxRows == 2

MaxFeedbacks == 2

MaxLen == 3

\* calls awaited at a time, beside the select of the mounted panel
MaxAwaited == 1

\* the star clicks explored, out of the 30 the form offers
MaxClicks == 6

---------------------------------------------------------------------------
(* Domains *)

Criteria ==
    <<"qualidade_comida", "atendimento", "tempo_espera",
      "higiene_limpeza", "custo_beneficio", "ambiente_conforto">>

criteriaMapping ==
    [k \in {Criteria[i] : i \in 1..6} |->
        CASE k = "qualidade_comida"  -> "Qualidade da Comida"
          [] k = "atendimento"       -> "Atendimento"
          [] k = "tempo_espera"      -> "Tempo de Espera"
          [] k = "higiene_limpeza"   -> "Higiene e Limpeza"
          [] k = "custo_beneficio"   -> "Custo-Benefício"
          [] k = "ambiente_conforto" -> "Ambiente e Conforto"]

SortKeys == {"recent", "best", "worst"}

MinRatingOptions == {"all", "1", "2", "3", "4", "5"}

\* Number(minRatingFilter) for the numeric options of the select
NumberOf(s) ==
    CASE s = "1" -> 1 [] s = "2" -> 2 [] s = "3" -> 3
      [] s = "4" -> 4 [] s = "5" -> 5

Feedback(i, t, c, s) == [id |-> i, created_at |-> t, cpf |-> c, scores |-> s]

\* what a client may send to the table: the insert policy checks nothing
InsertPayloads ==
    { [cpf |-> "111", scores |-> <<5, 5, 5, 5, 5, 5>>],
      [cpf |-> "222", scores |-> <<4, 5, 3, 5, 2, 2>>],
      [cpf |-> "111", scores |-> <<2, 4, 4, 1, 3, 4>>],
      [cpf |-> "333", scores |-> <<0, 3, 6, 3, 3, 3>>] }

\* records the pure functions of the panel are exercised on; a cpf is free
\* text, and two of them name properties of Object.prototype (a list may hold
\* a record more than once)
SampleFeedbacks ==
    { Feedback(1, 1, "111", <<5, 5, 5, 5, 5, 5>>),
      Feedback(2, 1, "222", <<1, 1, 1, 1, 1, 1>>),
      Feedback(3, 2, "111", <<3, 3, 3, 3, 3, 3>>),
      Feedback(4, 2, "222", <<4, 5, 3, 5, 2, 2>>),
      Feedback(5, 3, "constructor", <<5, 5, 5, 5, 5, 4>>),
      Feedback(6, 4, "__proto__", <<6, 6, 6, 6, 6, 0>>) }

BoundedSeq(S, n) == UNION { [1..k -> S] : k \in 0..n }

---------------------------------------------------------------------------
(* Arithmetic helpers *)

(* Doubles.  A finite double x >= 0 is kept as the integer x * 2^66, written
   in base 2^22 as four limbs with the least significant first: limbs 1..3
   hold the fraction, limb 4 the integer part (it is not bounded by the
   base).  Every double from 2^-14 up to 2^30 is such an integer; with counts
   and divisors below 2^9, the quotients of integers and what the statistics
   compute from them lie in that range. *)
LimbBits == 22

LimbBase == 4194304

\* the 53 bits of the significand
SignificandBits == 53

\* NaN, the value of 0 / 0
NaN == <<-1, -1, -1, -1>>

\* null, as a column of a row holds it: told apart from every number a
\* column holds (scores are not negative)
Null == -1

\* the number an arithmetic operator makes of a column: null converts to 0
ToNumber(v) == IF v = Null THEN 0 ELSE v

\* the double of the integer n >= 0
DoubleOf(n) == <<0, 0, 0, n>>

\* the integer x + y
SumOfLimbs(x, y) ==
    LET s1 == x[1] + y[1]
        s2 == x[2] + y[2] + (s1 \div LimbBase)
        s3 == x[3] + y[3] + (s2 \div LimbBase)
    IN  <<s1 % LimbBase, s2 % LimbBase, s3 % LimbBase,
          x[4] + y[4] + (s3 \div LimbBase)>>

\* the integer x * k, for an integer 0 <= k < 2^9
ProductOfLimbs(x, k) ==
    LET s1 == x[1] * k
        s2 == x[2] * k + (s1 \div LimbBase)
        s3 == x[3] * k + (s2 \div LimbBase)
    IN  <<s1 % LimbBase, s2 % LimbBase, s3 % LimbBase,
          x[4] * k + (s3 \div LimbBase)>>

\* the long division of the integer x by an integer 0 < k < 2^9: the four
\* limbs of floor(x / k), and the remainder as the fifth entry
DivisionOfLimbs(x, k) ==
    LET d3 == (x[4] % k) * LimbBase + x[3]
        d2 == (d3 % k) * LimbBase + x[2]
        d1 == (d2 % k) * LimbBase + x[1]
    IN  <<d1 \div k, d2 \div k, d3 \div k, x[4] \div k, d1 % k>>

\* 2^0 .. 2^22
PowersOfTwo ==
    <<1, 2, 4, 8, 16, 32, 64, 128, 256, 512, 1024, 2048, 4096, 8192, 16384,
      32768, 65536, 131072, 262144, 524288, 1048576, 2097152, 4194304>>

PowerOfTwo(e) == PowersOfTwo[e + 1]

\* the number of bits of the integer 0 < m < 2^11
BitLengthBelow(m) ==
    IF m < 64
    THEN IF m < 8
         THEN IF m < 2 THEN 1 ELSE IF m < 4 THEN 2 ELSE 3
         ELSE IF m < 16 THEN 4 ELSE IF m < 32 THEN 5 ELSE 6
    ELSE IF m < 512
         THEN IF m < 128 THEN 7 ELSE IF m < 256 THEN 8 ELSE 9
         ELSE IF m < 1024 THEN 10 ELSE 11

\* the number of bits of the integer 0 < n < 2^31
BitLength(n) ==
    IF n < 2048 THEN BitLengthBelow(n)
    ELSE IF n < LimbBase THEN 11 + BitLengthBelow(n \div 2048)
    ELSE LimbBits + BitLengthBelow(n \div LimbBase)

\* the most significant limb of the integer x > 0 that is not 0
TopLimb(x) ==
    IF x[4] # 0 THEN 4 ELSE IF x[3] # 0 THEN 3 ELSE IF x[2] # 0 THEN 2 ELSE 1

\* the position (from 0) of the leading bit of limb `top` of x
LeadingBitIn(x, top) == LimbBits * (top - 1) + BitLength(x[top]) - 1

\* the position (from 0) of the leading bit of the integer x > 0
LeadingBit(x) == LeadingBitIn(x, TopLimb(x))

\* the integer x with its first limb replaced by s1 >= 0, carried on
Carried(x, s1) ==
    LET s2 == x[2] + (s1 \div LimbBase)
    IN  <<s1 % LimbBase, s2 % LimbBase, (x[3] + (s2 \div LimbBase)) % LimbBase,
          x[4] + ((x[3] + (s2 \div LimbBase)) \div LimbBase)>>

\* x rounded to a multiple of c = 2^s, for 0 < s < 22: the bits cut off are
\* r, in the first limb, and `half` is half of c
RoundedBelow(x, sticky, c, half, r) ==
    IF r > half \/ (r = half /\ (sticky \/ (x[1] \div c) % 2 = 1))
    THEN Carried(x, x[1] - r + c)
    ELSE <<x[1] - r, x[2], x[3], x[4]>>

\* x rounded at bit s (of value c in limb a + 1) for s >= 22; bit s - 1, the
\* half, has value ch in limb ah + 1
RoundedAbove(x, sticky, a, c, ah, ch) ==
    LET up  == /\ (x[ah + 1] \div ch) % 2 = 1
               /\ \/ sticky
                  \/ x[ah + 1] % ch # 0
                  \/ \E i \in 1..ah : x[i] # 0
                  \/ (x[a + 1] \div c) % 2 = 1
        Cut(i) == IF i <= a THEN 0
                  ELSE IF i = a + 1 THEN (x[i] \div c) * c
                  ELSE x[i]
        Ulp(i) == IF i = a + 1 THEN c ELSE 0
    IN  IF up THEN SumOfLimbs(<<Cut(1), Cut(2), Cut(3), Cut(4)>>,
                              <<Ulp(1), Ulp(2), Ulp(3), Ulp(4)>>)
        ELSE <<Cut(1), Cut(2), Cut(3), Cut(4)>>

\* x rounded to the multiple of 2^s nearest to it, or to a value between x
\* and x + 1 when sticky; ties go to the even multiple
RoundedAt(x, sticky, s) ==
    IF s <= 0 THEN x
    ELSE IF s < LimbBits
    THEN RoundedBelow(x, sticky, PowerOfTwo(s), PowerOfTwo(s - 1),
                      x[1] % PowerOfTwo(s))
    ELSE RoundedAbove(x, sticky, s \div LimbBits, PowerOfTwo(s % LimbBits),
                      (s - 1) \div LimbBits, PowerOfTwo((s - 1) % LimbBits))

\* the double nearest to the integer x, or to a value between x and x + 1
\* when sticky; ties go to the even significand
RoundToDouble(x, sticky) ==
    IF ~ sticky /\ x[1] = 0 /\ x[4] < 512
    THEN \* at most 53 bits from the leading one down: a double as it is
         x
    ELSE RoundedAt(x, sticky, LeadingBit(x) + 1 - SignificandBits)

\* the double nearest to the quotient whose long division gave q
RoundedQuotient(q) == RoundToDouble(<<q[1], q[2], q[3], q[4]>>, q[5] # 0)

\* a / b of the integers a >= 0 and b > 0
DoubleQuotient(a, b) ==
    IF a % b = 0 THEN DoubleOf(a \div b)
    ELSE RoundedQuotient(DivisionOfLimbs(DoubleOf(a), b))

\* x + y of two doubles
DoubleAdd(x, y) == RoundToDouble(SumOfLimbs(x, y), FALSE)

\* x / k of a double and an integer: NaN for 0 / 0
DoubleDivide(x, k) ==
    IF k = 0 THEN NaN
    ELSE RoundedQuotient(DivisionOfLimbs(x, k))

\* x * k of a double and an integer
DoubleMultiply(x, k) == RoundToDouble(ProductOfLimbs(x, k), FALSE)

\* x < y of two doubles
DoubleLess(x, y) ==
    \/ x[4] < y[4]
    \/ x[4] = y[4] /\ \/ x[3] < y[3]
                      \/ x[3] = y[3] /\ \/ x[2] < y[2]
                                        \/ x[2] = y[2] /\ x[1] < y[1]

\* faulty variant: the fraction is cut off instead of rounded (Math.floor)
MathFloor(x) == x[4]

\* Math.round of a double: floor(x + 1/2)
MathRound(x) == x[4] + (IF 2 * x[3] >= LimbBase THEN 1 ELSE 0)

\* Math.round((r / d) * 100) for integers r >= 0 and d > 0
Percentage(r, d) == MathRound(DoubleMultiply(DoubleQuotient(r, d), 100))

\* the sum of the six scores of one record
ScoreSum(f) ==
    ToNumber(f.scores[1]) + ToNumber(f.scores[2]) + ToNumber(f.scores[3])
        + ToNumber(f.scores[4]) + ToNumber(f.scores[5]) + ToNumber(f.scores[6])

---------------------------------------------------------------------------
(* Statistics (computed on every render from the whole list) *)

RECURSIVE Totals(_)
\* feedbacks.reduce of calculateAverages: the six per-criterion totals
Totals(fb) ==
    IF Len(fb) = 0 THEN <<0, 0, 0, 0, 0, 0>>
    ELSE LET acc == Totals(SubSeq(fb, 1, Len(fb) - 1))
             f   == fb[Len(fb)]
             S(k) == acc[k] + ToNumber(f.scores[k])
         IN  <<S(1), S(2), S(3), S(4), S(5), S(6)>>

\* the object of averages as its entries, in key order; <<>> is {}
calculateAverages(fb) ==
    IF Len(fb) = 0 THEN <<>>
    ELSE LET totals   == Totals(fb)
             Entry(i) == <<Criteria[i], DoubleQuotient(totals[i], Len(fb))>>
         IN  <<Entry(1), Entry(2), Entry(3), Entry(4), Entry(5), Entry(6)>>

\* faulty variant: the minimum search replaces on ties as well (<= instead of <)
PickWorstLastOnTie(min, current) ==
    IF DoubleLess(current[2], min[2]) \/ current[2] = min[2] THEN current ELSE min

PickWorst(min, current) == IF DoubleLess(current[2], min[2]) THEN current ELSE min

PickBest(max, current) == IF DoubleLess(max[2], current[2]) THEN current ELSE max

RECURSIVE ReduceWorst(_)
\* entries.reduce((min, current) => ...) without an initial value
ReduceWorst(entries) ==
    IF Len(entries) = 1 THEN entries[1]
    ELSE PickWorst(ReduceWorst(SubSeq(entries, 1, Len(entries) - 1)),
                   entries[Len(entries)])

RECURSIVE ReduceBest(_)
ReduceBest(entries) ==
    IF Len(entries) = 1 THEN entries[1]
    ELSE PickBest(ReduceBest(SubSeq(entries, 1, Len(entries) - 1)),
                  entries[Len(entries)])

\* null is <<>>; otherwise [name, score]
getWorstAndBestCriteria(fb) ==
    LET entries == calculateAverages(fb)
    IN  IF Len(entries) = 0 THEN [worst |-> <<>>, best |-> <<>>]
        ELSE LET worst == ReduceWorst(entries)
                 best  == ReduceBest(entries)
             IN  [worst |-> [name |-> criteriaMapping[worst[1]], score |-> worst[2]],
                  best  |-> [name |-> criteriaMapping[best[1]],  score |-> best[2]]]

\* the properties an object literal inherits from Object.prototype, each with
\* the text it converts to
ObjectPrototype ==
    [k \in {"constructor", "toString", "toLocaleString", "valueOf",
            "hasOwnProperty", "isPrototypeOf", "propertyIsEnumerable",
            "__defineGetter__", "__defineSetter__", "__lookupGetter__",
            "__lookupSetter__", "__proto__"} |->
        CASE k = "constructor"          -> "function Object() { [native code] }"
          [] k = "toString"             -> "function toString() { [native code] }"
          [] k = "toLocaleString"       -> "function toLocaleString() { [native code] }"
          [] k = "valueOf"              -> "function valueOf() { [native code] }"
          [] k = "hasOwnProperty"       -> "function hasOwnProperty() { [native code] }"
          [] k = "isPrototypeOf"        -> "function isPrototypeOf() { [native code] }"
          [] k = "propertyIsEnumerable" -> "function propertyIsEnumerable() { [native code] }"
          [] k = "__defineGetter__"     -> "function __defineGetter__() { [native code] }"
          [] k = "__defineSetter__"     -> "function __defineSetter__() { [native code] }"
          [] k = "__lookupGetter__"     -> "function __lookupGetter__() { [native code] }"
          [] k = "__lookupSetter__"     -> "function __lookupSetter__() { [native code] }"
          [] k = "__proto__"            -> "[object Object]"]

(* A value held by cpfCounts: with text = "" the number `ones`; otherwise a
   string, the text followed by `ones` characters "1" (what + 1 makes of a
   value that is no number). *)
CountValue(text, ones) == [text |-> text, ones |-> ones]

\* count > 1: a string that is no numeral converts to NaN, and NaN > 1 is false
GreaterThanOne(v) == v.text = "" /\ v.ones > 1

(* The cpfCounts object, its own properties, after the reduce.  acc starts
   as {}, which inherits from Object.prototype: the first acc[cpf] of a cpf
   that names one of its properties finds the inherited value, and + 1 makes a
   string of it; every later + 1 appends another "1".  Every other cpf
   starts from 0.  An assignment of a string to __proto__ is dropped, so that
   cpf never becomes a key.  A record changes the value of its own cpf only,
   so the value of a key is given by the number of records that hold it. *)
CpfCounts(fb) ==
    LET keys == {fb[i].cpf : i \in 1..Len(fb)} \ {"__proto__"}
        Records(c) == Cardinality({i \in 1..Len(fb) : fb[i].cpf = c})
    IN  [c \in keys |->
            CountValue(IF c \in DOMAIN ObjectPrototype THEN ObjectPrototype[c]
                       ELSE "",
                       Records(c))]

\* faulty variant: a cpf counts as recurrent only when two neighbouring records share it
RecurrentAdjacentOnly(fb) ==
    LET keys == {fb[i].cpf : i \in 1..Len(fb)}
        rec  == {fb[i].cpf : i \in {j \in 1..Len(fb) - 1 : fb[j].cpf = fb[j + 1].cpf}}
    IN  IF keys = {} THEN 0
        ELSE Percentage(Cardinality(rec), Cardinality(keys))

\* Math.round((recurrentCount / Object.keys(cpfCounts).length) * 100) || 0
getRecurrentCustomers(fb) ==
    LET cpfCounts      == CpfCounts(fb)
        recurrentCount == Cardinality({c \in DOMAIN cpfCounts :
                                          GreaterThanOne(cpfCounts[c])})
        keys           == Cardinality(DOMAIN cpfCounts)
    IN  IF keys = 0 THEN 0    \* 0 / 0 is NaN, and NaN || 0 is 0
        ELSE Percentage(recurrentCount, keys)

RECURSIVE Distribution(_)
\* distribution[b].count for b in 1..5
Distribution(fb) ==
    IF Len(fb) = 0 THEN [b \in 1..5 |-> 0]
    ELSE LET acc       == Distribution(SubSeq(fb, 1, Len(fb) - 1))
             avgRating == MathRound(DoubleQuotient(ScoreSum(fb[Len(fb)]), 6))
         IN  IF avgRating >= 1 /\ avgRating <= 5
             THEN [acc EXCEPT ![avgRating] = @ + 1]
             ELSE acc

getRatingDistribution(fb) == Distribution(fb)

RECURSIVE SumValues(_)
\* Object.values(averages).reduce((sum, avg) => sum + avg, 0)
SumValues(entries) ==
    IF Len(entries) = 0 THEN DoubleOf(0)
    ELSE DoubleAdd(SumValues(SubSeq(entries, 1, Len(entries) - 1)),
                   entries[Len(entries)][2])

\* faulty variant: the sum of the averages is divided by a fixed 5
overallAverageDividedByFive(averages) ==
    IF Len(averages) = 0 THEN DoubleOf(0)
    ELSE DoubleDivide(SumValues(averages), 5)

\* faulty variant: no test for an empty object of averages
overallAverageUnguarded(averages) ==
    DoubleDivide(SumValues(averages), Len(averages))

\* the sum of the averages over their number, 0 when there are none
overallAverage(averages) ==
    IF Len(averages) = 0 THEN DoubleOf(0)
    ELSE DoubleDivide(SumValues(averages), Len(averages))

\* everything the render derives from the list before it draws the list
Statistics(fb) ==
    LET averages == calculateAverages(fb)
        wb       == getWorstAndBestCriteria(fb)
    IN  [ total               |-> Len(fb),
          averages            |-> averages,
          worst               |-> wb.worst,
          best                |-> wb.best,
          recurrentPercentage |-> getRecurrentCustomers(fb),
          overallAverage      |-> overallAverage(averages),
          distribution        |-> getRatingDistribution(fb) ]

---------------------------------------------------------------------------
(* The list view: filteredAndSortedFeedbacks *)

\* faulty variant: the filter compares the rounded mean with the minimum
PassesFilterRounded(f, mf) ==
    IF mf = "all" THEN TRUE
    ELSE MathRound(DoubleQuotient(ScoreSum(f), 6)) >= NumberOf(mf)

\* avgRating >= minRating, with avgRating = (sum of the six scores) / 6
PassesFilter(f, mf) ==
    IF mf = "all" THEN TRUE
    ELSE ~ DoubleLess(DoubleQuotient(ScoreSum(f), 6), DoubleOf(NumberOf(mf)))

\* feedbacks.filter(...): a new array, in list order
Filter(fb, mf) == SelectSeq(fb, LAMBDA f : PassesFilter(f, mf))

\* the sort comparator, scaled by 6 for "best" and "worst": its sign is that
\* of avgB - avgA (or avgA - avgB)
Compare(a, b, sb) ==
    IF sb = "recent" THEN b.created_at - a.created_at
    ELSE IF sb = "best" THEN ScoreSum(b) - ScoreSum(a)
    ELSE ScoreSum(a) - ScoreSum(b)

\* x put into the sorted sequence s behind every element it does not precede
InsertSorted(s, x, sb) ==
    LET before == {i \in 1..Len(s) : Compare(s[i], x, sb) > 0}
        pos    == IF before = {} THEN Len(s) + 1
                  ELSE CHOOSE i \in before : \A j \in before : i <= j
    IN  SubSeq(s, 1, pos - 1) \o <<x>> \o SubSeq(s, pos, Len(s))

RECURSIVE Sort(_, _)
\* Array.prototype.sort with the comparator: a stable sort
Sort(fb, sb) ==
    IF Len(fb) = 0 THEN <<>>
    ELSE InsertSorted(Sort(SubSeq(fb, 1, Len(fb) - 1), sb), fb[Len(fb)], sb)

\* the array filteredAndSortedFeedbacks returns
project(fb, mf, sb) == Sort(Filter(fb, mf), sb)

\* the array held by the state after the call: with no filter, `filtered` is
\* the state's own array and sort works in place
StoredAfterProject(fb, mf, sb) == IF mf = "all" THEN Sort(fb, sb) ELSE fb

---------------------------------------------------------------------------
(* The panel as a state machine *)

\* nothing but the spinner is rendered while loading
NoStats == "loading"

\* one render with list fb: the statistics, then the list view, whose sort
\* may reorder the state's array
Render(fb, ld, mf, sb) ==
    IF ld
    THEN /\ feedbacks' = fb
         /\ stats' = NoStats
         /\ view' = <<>>
    ELSE /\ stats' = Statistics(fb)
         /\ view' = project(fb, mf, sb)
         /\ feedbacks' = StoredAfterProject(fb, mf, sb)

\* .select('*').order('created_at', { ascending: false })
SelectAll(rows) == Sort(rows, "recent")

\* no file has been exported
NoCsv == <<>>

\* no toast has been raised
NoToast == "none"

\* the customer form as useState creates it
FormInit ==
    /\ customer = [name |-> "", cpf |-> "", phone |-> "", instagram |-> ""]
    /\ ratings = [scores |-> <<0, 0, 0, 0, 0, 0>>, comment |-> ""]
    /\ isSubmitting = FALSE
    /\ toastTitle = NoToast

\* a call that carries no row (the select of a panel)
NoRow ==
    [ nome |-> <<>>, cpf |-> "", telefone |-> "", instagram |-> "",
      scores |-> <<0, 0, 0, 0, 0, 0>>, comentario |-> <<>> ]

\* the awaited calls once the component that awaits them is unmounted
Abandoned(calls) ==
    LET live == {e \in BagToSet(calls) : e.live}
    IN  (calls (-) SetToBag(live))
            (+) SetToBag({[e EXCEPT !.live = FALSE] : e \in live})

\* no AdminPanel is mounted: its state holds what the next mount starts from
PanelUnmounted ==
    /\ subscribed = FALSE
    /\ channel = {}
    /\ notified = {}
    /\ fetchState = "unmounted"
    /\ data = <<>>
    /\ feedbacks = <<>>
    /\ loading = TRUE
    /\ sortBy = "recent"
    /\ minRatingFilter = "all"
    /\ stats = NoStats
    /\ view = <<>>

\* the page as it opens: the form is shown, the table is empty
Init ==
    /\ activeView = "form"
    /\ db = <<>>
    /\ PanelUnmounted
    /\ csv = NoCsv
    /\ FormInit
    /\ awaited = EmptyBag

\* 'Painel Admin' is clicked: the form is unmounted, its awaited insert goes
\* on without it; an AdminPanel is mounted and its effect calls
\* fetchFeedbacks and opens a channel
ShowAdmin ==
    /\ activeView = "form"
    /\ activeView' = "admin"
    /\ customer' = [name |-> "", cpf |-> "", phone |-> "", instagram |-> ""]
    /\ ratings' = [scores |-> <<0, 0, 0, 0, 0, 0>>, comment |-> ""]
    /\ isSubmitting' = FALSE
    /\ awaited' = Abandoned(awaited)
    /\ subscribed' = FALSE
    /\ channel' = {}
    /\ notified' = {}
    /\ fetchState' = "requested"
    /\ data' = <<>>
    /\ loading' = TRUE
    /\ sortBy' = "recent"
    /\ minRatingFilter' = "all"
    /\ Render(<<>>, TRUE, "all", "recent")
    /\ UNCHANGED <<db, csv, toastTitle>>

\* 'Avaliacao' is clicked: the AdminPanel is unmounted, the cleanup of its
\* effect removes the channel, a select still awaited goes on without it; a
\* CustomerForm is mounted
ShowForm ==
    /\ activeView = "admin"
    /\ activeView' = "form"
    /\ IF fetchState \in {"requested", "responding"}
       THEN /\ BagCardinality(awaited) < MaxAwaited
            /\ awaited' = awaited (+) SetToBag({[call |-> "select", row |-> NoRow,
                                                 live |-> FALSE, stored |-> FALSE]})
       ELSE awaited' = awaited
    /\ subscribed' = FALSE
    /\ channel' = {}
    /\ notified' = {}
    /\ fetchState' = "unmounted"
    /\ data' = <<>>
    /\ loading' = TRUE
    /\ sortBy' = "recent"
    /\ minRatingFilter' = "all"
    /\ Render(<<>>, TRUE, "all", "recent")
    /\ UNCHANGED <<db, csv, customer, ratings, isSubmitting, toastTitle>>

\* the select of an unmounted panel returns rows: its setFeedbacks and
\* setLoading change nothing
LostSelectReturns(e) ==
    /\ e \in BagToSet(awaited)
    /\ e.call = "select"
    /\ awaited' = awaited (-) SetToBag({e})
    /\ UNCHANGED <<db, subscribed, channel, notified, fetchState, data, feedbacks,
                   loading, sortBy, minRatingFilter, stats, view>>
    /\ UNCHANGED <<csv, customer, ratings, isSubmitting, toastTitle>>
    /\ UNCHANGED activeView

\* the select of an unmounted panel returns an error: the toast is raised
LostSelectThrows(e) ==
    /\ e \in BagToSet(awaited)
    /\ e.call = "select"
    /\ awaited' = awaited (-) SetToBag({e})
    /\ toastTitle' = "Erro ao carregar avaliações"
    /\ UNCHANGED <<db, subscribed, channel, notified, fetchState, data, feedbacks,
                   loading, sortBy, minRatingFilter, stats, view>>
    /\ UNCHANGED <<csv, customer, ratings, isSubmitting>>
    /\ UNCHANGED activeView

\* a client inserts a row; the table assigns id and created_at
DbInsert(p) ==
    /\ Len(db) < MaxRows
    /\ LET row == Feedback(Len(db) + 1, Len(db) + 1, p.cpf, p.scores)
       IN  /\ db' = Append(db, row)
           /\ channel' = IF subscribed THEN channel \cup {row.id} ELSE channel
    /\ UNCHANGED <<subscribed, notified, fetchState, data, feedbacks, loading,
                   sortBy, minRatingFilter, stats, view>>
    /\ UNCHANGED <<csv, customer, ratings, isSubmitting, toastTitle>>
    /\ UNCHANGED pageVars

\* the channel opened by the effect is joined
SubscribeLive ==
    /\ activeView = "admin"
    /\ ~ subscribed
    /\ subscribed' = TRUE
    /\ UNCHANGED <<db, channel, notified, fetchState, data, feedbacks, loading,
                   sortBy, minRatingFilter, stats, view>>
    /\ UNCHANGED <<csv, customer, ratings, isSubmitting, toastTitle>>
    /\ UNCHANGED pageVars

\* the select of fetchFeedbacks is evaluated by the storage
FetchRead ==
    /\ fetchState = "requested"
    /\ fetchState' = "responding"
    /\ data' = SelectAll(db)
    /\ UNCHANGED <<db, subscribed, channel, notified, feedbacks, loading,
                   sortBy, minRatingFilter, stats, view>>
    /\ UNCHANGED <<csv, customer, ratings, isSubmitting, toastTitle>>
    /\ UNCHANGED pageVars

\* fetchFeedbacks resumes with the rows: setFeedbacks(data || []), then finally
FetchComplete ==
    /\ fetchState = "responding"
    /\ fetchState' = "done"
    /\ loading' = FALSE
    /\ Render(data, FALSE, minRatingFilter, sortBy)
    /\ UNCHANGED <<db, subscribed, channel, notified, data, sortBy, minRatingFilter>>
    /\ UNCHANGED <<csv, customer, ratings, isSubmitting, toastTitle>>
    /\ UNCHANGED pageVars

\* fetchFeedbacks resumes with an error: the list is left as it is and a
\* toast is raised
FetchFail ==
    /\ fetchState \in {"requested", "responding"}
    /\ fetchState' = "failed"
    /\ loading' = FALSE
    /\ Render(feedbacks, FALSE, minRatingFilter, sortBy)
    /\ UNCHANGED <<db, subscribed, channel, notified, data, sortBy, minRatingFilter>>
    /\ toastTitle' = "Erro ao carregar avaliações"
    /\ UNCHANGED <<csv, customer, ratings, isSubmitting>>
    /\ UNCHANGED pageVars

\* the list after the INSERT handler ran for payload.new = row
OnInsert(prev, row) == <<row>> \o prev

\* an INSERT event is delivered (at least once, in any order): the row is
\* prepended and a toast is raised
Notify(id) ==
    /\ id \in channel
    /\ Len(feedbacks) < MaxFeedbacks
    /\ notified' = notified \cup {id}
    /\ Render(OnInsert(feedbacks, db[id]), loading, minRatingFilter, sortBy)
    /\ UNCHANGED <<db, subscribed, channel, fetchState, data, loading,
                   sortBy, minRatingFilter>>
    /\ toastTitle' = "Nova avaliação recebida!"
    /\ UNCHANGED <<csv, customer, ratings, isSubmitting>>
    /\ UNCHANGED pageVars

\* the content of a row after its scores have been rewritten in the table
Rewritten(row) == [row EXCEPT !.scores = <<1, 1, 1, 1, 1, 1>>]

\* an INSERT event arrives whose id the list already holds with other field
\* values (the row was rewritten between the read and the event)
NotifyConflict(id) ==
    /\ id \in channel
    /\ Len(feedbacks) < MaxFeedbacks
    /\ \E i \in 1..Len(feedbacks) : feedbacks[i] = db[id]
    /\ notified' = notified \cup {id}
    /\ Render(OnInsert(feedbacks, Rewritten(db[id])), loading, minRatingFilter,
              sortBy)
    /\ UNCHANGED <<db, subscribed, channel, fetchState, data, loading,
                   sortBy, minRatingFilter>>
    /\ toastTitle' = "Nova avaliação recebida!"
    /\ UNCHANGED <<csv, customer, ratings, isSubmitting>>
    /\ UNCHANGED pageVars

\* the operator picks another sort order
SetSortBy(s) ==
    /\ ~ loading
    /\ s # sortBy
    /\ sortBy' = s
    /\ Render(feedbacks, loading, minRatingFilter, s)
    /\ UNCHANGED <<db, subscribed, channel, notified, fetchState, data, loading,
                   minRatingFilter>>
    /\ UNCHANGED <<csv, customer, ratings, isSubmitting, toastTitle>>
    /\ UNCHANGED pageVars

\* the operator picks another minimum rating
SetMinRatingFilter(f) ==
    /\ ~ loading
    /\ f # minRatingFilter
    /\ minRatingFilter' = f
    /\ Render(feedbacks, loading, f, sortBy)
    /\ UNCHANGED <<db, subscribed, channel, notified, fetchState, data, loading,
                   sortBy>>
    /\ UNCHANGED <<csv, customer, ratings, isSubmitting, toastTitle>>
    /\ UNCHANGED pageVars

Next ==
    \/ \E p \in InsertPayloads : DbInsert(p)
    \/ SubscribeLive
    \/ FetchRead
    \/ FetchComplete
    \/ FetchFail
    \/ \E id \in channel : Notify(id)
    \/ \E s \in SortKeys : SetSortBy(s)
    \/ \E f \in MinRatingOptions : SetMinRatingFilter(f)
    \/ ShowAdmin
    \/ ShowForm
    \/ \E e \in BagToSet(awaited) : LostSelectReturns(e)
    \/ \E e \in BagToSet(awaited) : LostSelectThrows(e)

Spec == Init /\ [][Next]_vars

(* The live feed with conflicting events *)
NextFeed ==
    \/ Next
    \/ \E id \in channel : NotifyConflict(id)

SpecFeed == Init /\ [][NextFeed]_vars

(* The pure functions on drawn lists: any list of sample records, loaded and
   shown under a minimum-rating filter (which leaves the list in the order it
   was stored in), then re-rendered as the operator changes filter and order *)
InitPure ==
    /\ db = <<>>
    /\ subscribed = FALSE
    /\ channel = {}
    /\ notified = {}
    /\ fetchState = "done"
    /\ data = <<>>
    /\ loading = FALSE
    /\ sortBy \in SortKeys
    /\ minRatingFilter \in MinRatingOptions \ {"all"}
    /\ feedbacks \in BoundedSeq(SampleFeedbacks, MaxLen)
    /\ stats = Statistics(feedbacks)
    /\ view = project(feedbacks, minRatingFilter, sortBy)
    /\ csv = NoCsv
    /\ FormInit
    /\ activeView = "admin"
    /\ awaited = EmptyBag

NextPure ==
    \/ \E s \in SortKeys : SetSortBy(s)
    \/ \E f \in MinRatingOptions : SetMinRatingFilter(f)

SpecPure == InitPure /\ [][NextPure]_vars

---------------------------------------------------------------------------
(* The export: exportToCSV.  A text is a sequence of tokens; a token is one
   of the characters comma, double quote and line feed, or a run of other
   characters.  cpf, telefone and instagram are single runs. *)

Comma == ","

Quote == "\""

LineFeed == "\n"

\* granularity of created_at: timestamps per calendar day
TicksPerDay == 2

FeedbackRow(i, t, n, c, tel, insta, s, com) ==
    [id |-> i, created_at |-> t, nome |-> n, cpf |-> c, telefone |-> tel,
     instagram |-> insta, scores |-> s, comentario |-> com]

\* rows with a comma in the name, a score column that is null, quotes in the
\* comment, and a comma and a line feed in the comment
ExportSamples ==
    { FeedbackRow(1, 1, <<"Ana">>, "111", "1199", "@ana",
                  <<5, 5, 5, 5, 5, 5>>, <<"bom">>),
      FeedbackRow(2, 2, <<"Lima", Comma, " Bia">>, "222", "2199", "@bia",
                  <<3, 3, 3, Null, 3, 3>>, <<>>),
      FeedbackRow(3, 3, <<"Caio">>, "333", "3199", "@caio",
                  <<4, 5, 3, 5, 2, 2>>, <<"disse ", Quote, "otimo", Quote>>),
      FeedbackRow(4, 4, <<"Duda">>, "111", "1199", "@duda",
                  <<1, 1, 1, 1, 1, 1>>, <<"frio", Comma, " lento", LineFeed, "caro">>) }

headers ==
    <<"Nome", "CPF", "Telefone", "Instagram", "Data", "Qualidade Comida",
      "Atendimento", "Tempo Espera", "Higiene", "Custo-Benefício", "Ambiente",
      "Comentário">>

RECURSIVE Join(_, _)
\* texts.join(sep)
Join(texts, sep) ==
    IF Len(texts) = 0 THEN <<>>
    ELSE IF Len(texts) = 1 THEN texts[1]
    ELSE Join(SubSeq(texts, 1, Len(texts) - 1), sep) \o <<sep>> \o texts[Len(texts)]

RECURSIVE DoubleQuotes(_)
\* text.replace(/"/g, '""')
DoubleQuotes(text) ==
    IF Len(text) = 0 THEN <<>>
    ELSE (IF Head(text) = Quote THEN <<Quote, Quote>> ELSE <<Head(text)>>)
             \o DoubleQuotes(Tail(text))

\* new Date(created_at).toLocaleDateString('pt-BR'): the day, not the time
LocaleDateString(t) == <<ToString(t \div TicksPerDay)>>

\* the text join makes of an element of the array: none for null, the
\* decimal numeral for a number
ElementText(v) == IF v = Null THEN <<>> ELSE <<ToString(v)>>

\* the cells of one record as texts, before they are joined
Cells(f) ==
    << f.nome, <<f.cpf>>, <<f.telefone>>, <<f.instagram>>,
       LocaleDateString(f.created_at),
       ElementText(f.scores[1]), ElementText(f.scores[2]),
       ElementText(f.scores[3]), ElementText(f.scores[4]),
       ElementText(f.scores[5]), ElementText(f.scores[6]),
       <<Quote>> \o DoubleQuotes(f.comentario) \o <<Quote>> >>

\* csvContent for the list fb
csvContent(fb) ==
    Join(<<Join([i \in 1..Len(headers) |-> <<headers[i]>>], Comma)>>
             \o [i \in 1..Len(fb) |-> Join(Cells(fb[i]), Comma)],
         LineFeed)

\* the export button: the file is built from the state's list and a toast
\* is raised
ExportToCSV ==
    /\ ~ loading
    /\ csv' = csvContent(feedbacks)
    /\ toastTitle' = "Exportação concluída!"
    /\ UNCHANGED <<db, subscribed, channel, notified, fetchState, data, feedbacks,
                   loading, sortBy, minRatingFilter, stats, view>>
    /\ UNCHANGED <<customer, ratings, isSubmitting>>
    /\ UNCHANGED pageVars

(* The export on drawn lists of rows with text fields *)
InitExport ==
    /\ db = <<>>
    /\ subscribed = FALSE
    /\ channel = {}
    /\ notified = {}
    /\ fetchState = "done"
    /\ data = <<>>
    /\ loading = FALSE
    /\ sortBy \in SortKeys
    /\ minRatingFilter \in MinRatingOptions \ {"all"}
    /\ feedbacks \in BoundedSeq(ExportSamples, MaxLen)
    /\ stats = Statistics(feedbacks)
    /\ view = project(feedbacks, minRatingFilter, sortBy)
    /\ csv = NoCsv
    /\ FormInit
    /\ activeView = "admin"
    /\ awaited = EmptyBag

NextExport ==
    \/ \E s \in SortKeys : SetSortBy(s)
    \/ \E f \in MinRatingOptions : SetMinRatingFilter(f)
    \/ ExportToCSV

SpecExport == InitExport /\ [][NextExport]_vars

----------------------------------------------------------------------------
(* The customer form: CustomerForm.  The scores of ratings are kept in the
   order of ratingCriteria; 0 is a criterion without stars.  A text column of
   a row is a text of the export: a sequence of tokens. *)

CustomerFields == {"name", "cpf", "phone", "instagram"}

\* what the visitor types into a text input
TypedValues == {"", "a"}

\* the stars every criterion offers: [1, 2, 3, 4, 5]
Stars == 1..5

(* The form offers 30 star clicks, five for each of the six criteria.  They
   are taken in rounds of six, one click for each criterion: round t
   (t = 0..4) clicks star ((k - 1 + t) % 5) + 1 of criterion k.  The first
   MaxClicks of them are explored; with MaxClicks = 30 every criterion has
   every star. *)
ClickedStars(k) ==
    {star \in Stars :
        \E t \in 0..4 : /\ star = ((k - 1 + t) % 5) + 1
                         /\ 6 * t + (k - 1) < MaxClicks}

TypedComments == {"", "ok"}

\* faulty variant: only the customer fields are looked at
validateFormCustomerOnly(c, r) ==
    IF c.name = "" \/ c.cpf = "" \/ c.phone = "" \/ c.instagram = ""
    THEN "Campos obrigatórios"
    ELSE "valid"

\* the title of the toast validateForm raises, or "valid" when it returns true
validateForm(c, r) ==
    IF c.name = "" \/ c.cpf = "" \/ c.phone = "" \/ c.instagram = ""
    THEN "Campos obrigatórios"
    ELSE IF \E k \in 1..6 : r.scores[k] = 0
         THEN "Avaliações obrigatórias"
         ELSE "valid"

\* the object handed to insert; comentario is ratings.comment || null, and
\* null is the empty text
InsertObject(c, r) ==
    [ nome       |-> <<c.name>>,
      cpf        |-> c.cpf,
      telefone   |-> c.phone,
      instagram  |-> c.instagram,
      scores     |-> r.scores,
      comentario |-> IF r.comment = "" THEN <<>> ELSE <<r.comment>> ]

\* the row the table makes of an inserted object: id and created_at are set
StoredRow(o, n) ==
    FeedbackRow(n, n, o.nome, o.cpf, o.telefone, o.instagram, o.scores,
                o.comentario)

panelVars ==
    <<db, subscribed, channel, notified, fetchState, data, feedbacks, loading,
      sortBy, minRatingFilter, stats, view, csv>>

\* an input's onChange (raised when its value changes) -> handleCustomerChange
HandleCustomerChange(field, value) ==
    /\ activeView = "form"
    /\ value # customer[field]
    /\ customer' = [customer EXCEPT ![field] = value]
    /\ UNCHANGED <<ratings, isSubmitting, toastTitle>>
    /\ UNCHANGED panelVars
    /\ UNCHANGED pageVars

\* StarRating.handleClick(star) of criterion k -> handleRatingChange(key, star)
HandleClick(k, star) ==
    /\ activeView = "form"
    /\ ratings' = [ratings EXCEPT !.scores[k] = star]
    /\ UNCHANGED <<customer, isSubmitting, toastTitle>>
    /\ UNCHANGED panelVars
    /\ UNCHANGED pageVars

\* the textarea's onChange (raised when its value changes)
\* -> handleRatingChange("comment", text)
HandleCommentChange(text) ==
    /\ activeView = "form"
    /\ text # ratings.comment
    /\ ratings' = [ratings EXCEPT !.comment = text]
    /\ UNCHANGED <<customer, isSubmitting, toastTitle>>
    /\ UNCHANGED panelVars
    /\ UNCHANGED pageVars

\* the form is submitted (the button is disabled while a submit is under way).
\* With a valid form the insert of the form's values is sent and awaited: the
\* request is on its way to the storage.
\* The inputs are marked required, so a browser calls the handler only with
\* the four fields filled in; the first branch is taken when onSubmit is
\* called otherwise.
HandleSubmit ==
    /\ activeView = "form"
    /\ ~ isSubmitting
    /\ LET result == validateForm(customer, ratings)
       IN  IF result # "valid"
           THEN /\ toastTitle' = result
                /\ UNCHANGED <<customer, ratings, isSubmitting, awaited>>
           ELSE /\ BagCardinality(awaited) < MaxAwaited
                /\ isSubmitting' = TRUE
                /\ awaited' = awaited (+) SetToBag({[call   |-> "insert",
                                                     row    |-> InsertObject(customer, ratings),
                                                     live   |-> TRUE,
                                                     stored |-> FALSE]})
                /\ UNCHANGED <<customer, ratings, toastTitle>>
    /\ UNCHANGED panelVars
    /\ UNCHANGED activeView

\* the request of an awaited insert arrives at the storage: the row is
\* stored (and carried by a joined channel); the response is on its way
InsertArrives(e) ==
    /\ e \in BagToSet(awaited)
    /\ e.call = "insert"
    /\ ~ e.stored
    /\ Len(db) < MaxRows
    /\ db' = Append(db, StoredRow(e.row, Len(db) + 1))
    /\ channel' = IF subscribed THEN channel \cup {Len(db) + 1} ELSE channel
    /\ awaited' = (awaited (-) SetToBag({e}))
                      (+) SetToBag({[e EXCEPT !.stored = TRUE]})
    /\ UNCHANGED <<subscribed, notified, fetchState, data, feedbacks, loading,
                   sortBy, minRatingFilter, stats, view, csv>>
    /\ UNCHANGED <<customer, ratings, isSubmitting, toastTitle>>
    /\ UNCHANGED activeView

\* the response of an awaited insert arrives without an error: handleSubmit
\* resumes, the success toast is raised, and the form that sent the insert,
\* if still mounted, is reset
InsertReturns(e) ==
    /\ e \in BagToSet(awaited)
    /\ e.call = "insert"
    /\ e.stored
    /\ toastTitle' = "Avaliação enviada com sucesso!"
    /\ IF e.live
       THEN /\ customer' = [name |-> "", cpf |-> "", phone |-> "", instagram |-> ""]
            /\ ratings' = [scores |-> <<0, 0, 0, 0, 0, 0>>, comment |-> ""]
            /\ isSubmitting' = FALSE
       ELSE UNCHANGED <<customer, ratings, isSubmitting>>
    /\ awaited' = awaited (-) SetToBag({e})
    /\ UNCHANGED panelVars
    /\ UNCHANGED activeView

\* an awaited insert returns an error (the storage refused the row, or the
\* request or its response was lost), which is thrown and caught: the error
\* toast is raised, and the form that sent it, if still mounted, is enabled
InsertThrows(e) ==
    /\ e \in BagToSet(awaited)
    /\ e.call = "insert"
    /\ toastTitle' = "Erro ao enviar avaliação"
    /\ isSubmitting' = IF e.live THEN FALSE ELSE isSubmitting
    /\ awaited' = awaited (-) SetToBag({e})
    /\ UNCHANGED <<customer, ratings>>
    /\ UNCHANGED panelVars
    /\ UNCHANGED activeView

NextForm ==
    \/ \E field \in CustomerFields, value \in TypedValues :
          HandleCustomerChange(field, value)
    \/ \E k \in 1..6 : \E star \in ClickedStars(k) : HandleClick(k, star)
    \/ \E text \in TypedComments : HandleCommentChange(text)
    \/ HandleSubmit
    \/ \E e \in BagToSet(awaited) : InsertArrives(e)
    \/ \E e \in BagToSet(awaited) : InsertReturns(e)
    \/ \E e \in BagToSet(awaited) : InsertThrows(e)
    \/ ShowAdmin
    \/ FetchRead
    \/ FetchComplete
    \/ FetchFail
    \/ ShowForm
    \/ \E e \in BagToSet(awaited) : LostSelectReturns(e)
    \/ \E e \in BagToSet(awaited) : LostSelectThrows(e)

SpecForm == Init /\ [][NextForm]_vars

---------------------------------------------------------------------------
(* Vocabulary of the properties *)

Valid(f) == \A k \in 1..6 : f.scores[k] \in 1..5

AllValid(fb) == \A i \in 1..Len(fb) : Valid(fb[i])

\* how often a record with this id occurs in the list
CountId(fb, id) == Cardinality({i \in 1..Len(fb) : fb[i].id = id})

\* how often this very record occurs in the list
CountRecord(fb, f) == Cardinality({i \in 1..Len(fb) : fb[i] = f})

Ids(fb) == {fb[i].id : i \in 1..Len(fb)}

Perms(n) == {p \in [1..n -> 1..n] : \A i, j \in 1..n : p[i] = p[j] => i = j}

Permute(fb, p) == [i \in 1..Len(fb) |-> fb[p[i]]]

\* the total of criterion k over the list, summed record by record
RECURSIVE CriterionSum(_, _)
CriterionSum(fb, k) ==
    IF Len(fb) = 0 THEN 0 ELSE fb[1].scores[k] + CriterionSum(Tail(fb), k)

\* the list is shown: the load has ended and a render has drawn it
Shown == ~ loading

---------------------------------------------------------------------------
(* C1: after any sequence of insert notifications, repeated ones included,
   the record list holds each id at most once (a notification for a stored
   id is absorbed). *)
C1_EachIdAtMostOnce ==
    \A id \in Ids(feedbacks) : CountId(feedbacks, id) = 1

(* C2: once the bulk load has completed and every insert event has been
   delivered, every record the bulk read returned or a notification
   delivered is in the list exactly once. *)
C2_NoneLostNoneTwice ==
    (fetchState = "done" /\ channel \subseteq notified)
        => \A id \in Ids(data) \cup notified : CountId(feedbacks, id) = 1

(* C3: every record in the list has all six scores in 1..5 (a record with a
   missing or out-of-range score never enters it, by bulk load or by
   notification). *)
C3_OnlyValidRecords == AllValid(feedbacks)

---------------------------------------------------------------------------
(* C4: the statistics shown for a list of valid records are those of every
   permutation of it: averages, overall average, best and worst criterion,
   histogram and recurring-customer ratio do not depend on arrival order. *)
C4_OrderIndependent ==
    (Shown /\ AllValid(feedbacks))
        => \A p \in Perms(Len(feedbacks)) :
               Statistics(Permute(feedbacks, p)) = stats

\* three valid records, not all of one customer, shown in an order that a
\* permutation changes
C4_Witness ==
    /\ Shown /\ AllValid(feedbacks) /\ Len(feedbacks) = 3
    /\ feedbacks[1].cpf = feedbacks[3].cpf /\ feedbacks[1].cpf # feedbacks[2].cpf
    /\ ScoreSum(feedbacks[1]) # ScoreSum(feedbacks[2])
    /\ \E p \in Perms(3) : /\ Permute(feedbacks, p) # feedbacks
                           /\ Statistics(Permute(feedbacks, p)) = stats
    /\ stats.recurrentPercentage = 50

\* the mean of the six criterion averages of fb as the doubles give it: each
\* criterion sum over the count, added from 0 in the declared order, over 6
MeanOfAverages(fb) ==
    LET avg == [k \in 1..6 |-> DoubleQuotient(CriterionSum(fb, k), Len(fb))]
        sum == DoubleAdd(DoubleAdd(DoubleAdd(DoubleAdd(DoubleAdd(DoubleAdd(
                   DoubleOf(0), avg[1]), avg[2]), avg[3]), avg[4]), avg[5]), avg[6])
    IN  DoubleDivide(sum, 6)

\* the integer 2^18 in the limbs of a double: 2^-48 of a unit
Tolerance == <<262144, 0, 0, 0>>

\* | x * m - a | < m * 2^-48 for a double x and integers m > 0 and a >= 0
WithinTolerance(x, m, a) ==
    LET xm  == ProductOfLimbs(x, m)
        am  == DoubleOf(a)
        tol == ProductOfLimbs(Tolerance, m)
    IN  /\ DoubleLess(xm, SumOfLimbs(am, tol))
        /\ DoubleLess(am, SumOfLimbs(xm, tol))

(* C5 as stated: for a non-empty list of valid records the overall average
   is the mean of the six per-criterion averages, that is the number with
   overallAverage * 6 * count = the sum of the six criterion sums (as a
   double: the one nearest to that quotient), and every per-criterion
   average is its criterion sum over the count and lies in [1, 5]. *)
C5_ExactMeanOfAverages ==
    (Shown /\ AllValid(feedbacks) /\ Len(feedbacks) > 0)
        => LET n   == Len(feedbacks)
               sum == [k \in 1..6 |-> CriterionSum(feedbacks, k)]
               all == sum[1] + sum[2] + sum[3] + sum[4] + sum[5] + sum[6]
           IN  /\ stats.overallAverage = DoubleQuotient(all, 6 * n)
               /\ \A k \in 1..6 :
                     /\ stats.averages[k][2] = DoubleQuotient(sum[k], n)
                     /\ n <= sum[k] /\ sum[k] <= 5 * n

(* C5 amended: for a non-empty list of valid records the overall average is
   the mean of the six per-criterion averages as double arithmetic gives it
   (the averages added in the declared order, the sum divided by 6); it
   differs from the exact mean, the sum of the six criterion sums over
   6 * count, by less than 2^-48; every per-criterion average is the double
   of its criterion sum over the count, and the sum lies in
   [count, 5 * count]. *)
C5_OverallIsMeanOfAverages ==
    (Shown /\ AllValid(feedbacks) /\ Len(feedbacks) > 0)
        => LET n   == Len(feedbacks)
               sum == [k \in 1..6 |-> CriterionSum(feedbacks, k)]
               all == sum[1] + sum[2] + sum[3] + sum[4] + sum[5] + sum[6]
           IN  /\ stats.overallAverage = MeanOfAverages(feedbacks)
               /\ WithinTolerance(stats.overallAverage, 6 * n, all)
               /\ \A k \in 1..6 :
                     /\ stats.averages[k][2] = DoubleQuotient(sum[k], n)
                     /\ n <= sum[k] /\ sum[k] <= 5 * n

\* three valid records whose criterion averages are thirds: the overall
\* average shown is not the exact mean
C5_Witness ==
    /\ Shown /\ AllValid(feedbacks) /\ Len(feedbacks) = 3
    /\ stats.averages[1][2] # stats.averages[5][2]
    /\ DoubleLess(DoubleOf(1), stats.overallAverage)
    /\ LET all == CriterionSum(feedbacks, 1) + CriterionSum(feedbacks, 2)
                  + CriterionSum(feedbacks, 3) + CriterionSum(feedbacks, 4)
                  + CriterionSum(feedbacks, 5) + CriterionSum(feedbacks, 6)
       IN  /\ stats.overallAverage # DoubleQuotient(all, 18)
           /\ WithinTolerance(stats.overallAverage, 18, all)

(* C6: best is the criterion with the greatest average and worst the one
   with the least; among criteria sharing the extremum the first in the
   declared order is taken, for best and for worst. *)
C6_BestWorstFirstDeclared ==
    (Shown /\ Len(feedbacks) > 0)
        => LET avg == [k \in 1..6 |->
                          DoubleQuotient(CriterionSum(feedbacks, k), Len(feedbacks))]
           IN  /\ \E k \in 1..6 :
                     /\ \A j \in 1..6 : ~ DoubleLess(avg[k], avg[j])
                     /\ \A j \in 1..(k - 1) : DoubleLess(avg[j], avg[k])
                     /\ stats.best.name = criteriaMapping[Criteria[k]]
                     /\ stats.best.score = avg[k]
               /\ \E k \in 1..6 :
                     /\ \A j \in 1..6 : ~ DoubleLess(avg[j], avg[k])
                     /\ \A j \in 1..(k - 1) : DoubleLess(avg[k], avg[j])
                     /\ stats.worst.name = criteriaMapping[Criteria[k]]
                     /\ stats.worst.score = avg[k]

\* the maximum is shared by the second and fourth criterion, the minimum by
\* the fifth and sixth: the second and the fifth are reported
C6_Witness ==
    /\ Shown /\ Len(feedbacks) > 0
    /\ LET sum == [k \in 1..6 |-> CriterionSum(feedbacks, k)]
       IN  /\ sum[2] = sum[4] /\ sum[1] < sum[2]
           /\ sum[5] = sum[6] /\ sum[5] < sum[1]
    /\ stats.best.name = "Atendimento"
    /\ stats.worst.name = "Custo-Benefício"

---------------------------------------------------------------------------
\* the distinct cpfs of the list, and those found on more than one record
DistinctCpfs(fb) == {fb[i].cpf : i \in 1..Len(fb)}

RecurringCpfs(fb) ==
    {c \in DistinctCpfs(fb) : Cardinality({i \in 1..Len(fb) : fb[i].cpf = c}) > 1}

\* round(100 * r / d), halves up
RoundedPercent(r, d) == (200 * r + d) \div (2 * d)

(* C7: the recurring-customer ratio is 0 when every record has a distinct
   cpf, 100 when all of two or more records share one cpf, and in general
   round(100 * recurring cpfs / distinct cpfs); a cpf is any text. *)
C7_RatioOfRecurringCpfs ==
    (Shown /\ Len(feedbacks) > 0)
        => LET d == Cardinality(DistinctCpfs(feedbacks))
               r == Cardinality(RecurringCpfs(feedbacks))
           IN  /\ (d = Len(feedbacks)) => stats.recurrentPercentage = 0
               /\ (d = 1 /\ Len(feedbacks) >= 2) => stats.recurrentPercentage = 100
               /\ stats.recurrentPercentage = RoundedPercent(r, d)

(* C8: with a minimum rating k in 1..5 the view holds exactly the records of
   the list whose six-score sum is at least 6k, each as often as the list
   holds it; with k = 5 every valid record in the view has six scores of 5. *)
C8_FilterExact ==
    (Shown /\ minRatingFilter # "all")
        => LET k == NumberOf(minRatingFilter)
           IN  /\ \A i \in 1..Len(view) : ScoreSum(view[i]) >= 6 * k
               /\ \A i \in 1..Len(feedbacks) :
                     ScoreSum(feedbacks[i]) >= 6 * k
                         => CountRecord(view, feedbacks[i])
                                = CountRecord(feedbacks, feedbacks[i])
               /\ \A i \in 1..Len(view) : CountRecord(feedbacks, view[i]) > 0
               /\ k = 5 => \A i \in 1..Len(view) :
                               Valid(view[i]) => \A c \in 1..6 : view[i].scores[c] = 5

\* minimum 5 over a list with a perfect record and one whose mean rounds to 5
\* without reaching it: only the perfect one is shown
C8_Witness ==
    /\ Shown /\ minRatingFilter = "5" /\ Len(feedbacks) = 3
    /\ \E i \in 1..3 : ScoreSum(feedbacks[i]) = 29
    /\ \E i \in 1..3 : ScoreSum(feedbacks[i]) = 30
    /\ Len(view) = 1 /\ ScoreSum(view[1]) = 30

---------------------------------------------------------------------------
\* a may stand before b under the full sort key of the order sb
InOrder(a, b, sb) ==
    IF sb = "recent"
    THEN \/ a.created_at > b.created_at
         \/ a.created_at = b.created_at /\ a.id >= b.id
    ELSE IF sb = "best"
    THEN \/ ScoreSum(a) > ScoreSum(b)
         \/ ScoreSum(a) = ScoreSum(b) /\ a.created_at >= b.created_at
    ELSE \/ ScoreSum(a) < ScoreSum(b)
         \/ ScoreSum(a) = ScoreSum(b) /\ a.created_at >= b.created_at

(* C9: the view is totally ordered by its sort key, whatever the stored
   order: recent is created_at descending, then id descending; best is the
   record mean descending, then created_at descending; worst is the record
   mean ascending, then created_at descending.  Stated for lists that hold
   no id twice, so that a violation owes nothing to repeated records. *)
C9_ViewTotallyOrdered ==
    (Shown /\ \A id \in Ids(feedbacks) : CountId(feedbacks, id) = 1)
        => \A i \in 1..(Len(view) - 1) : InOrder(view[i], view[i + 1], sortBy)

(* C10: a call of the view function (a step that only picks another filter
   or sort key re-renders, and so calls it) leaves the stored list as it
   was, and changes the result of no later call, whatever its filter and
   sort key. *)
C10_ProjectIsPure ==
    [][ (Shown /\ activeView' = activeView
               /\ (sortBy' # sortBy \/ minRatingFilter' # minRatingFilter))
            => /\ feedbacks' = feedbacks
               /\ \A mf \in MinRatingOptions, sb \in SortKeys :
                      project(feedbacks', mf, sb) = project(feedbacks, mf, sb)
      ]_vars

---------------------------------------------------------------------------
(* C11: the exported file is one header line followed by exactly one line
   per record of the view (the filtered and sorted list), in the view's
   order, and nothing else. *)
C11_ExportIsTheView ==
    [][ csv' # csv => csv' = csvContent(view) ]_vars

\* A reader of delimited text with comma, double quote and line feed.  A
\* comma or a line feed separates only when an even number of quotes precedes
\* it; a cell written between quotes loses them and has its doubled quotes
\* halved.
QuotesUpTo(text, i) == Cardinality({j \in 1..i : text[j] = Quote})

Breaks(text, sep) ==
    {i \in 1..Len(text) : text[i] = sep /\ QuotesUpTo(text, i) % 2 = 0}

\* the k-th smallest member of a set of positions
Nth(S, k) == CHOOSE p \in S : Cardinality({q \in S : q < p}) = k - 1

\* the stretches <<first, last>> that the positions S cut out of from..to
Stretches(from, to, S) ==
    LET m == Cardinality(S)
    IN  [k \in 1..(m + 1) |->
            << IF k = 1 THEN from ELSE Nth(S, k - 1) + 1,
               IF k = m + 1 THEN to ELSE Nth(S, k) - 1 >>]

Unquote(cell) ==
    IF Len(cell) >= 2 /\ cell[1] = Quote /\ cell[Len(cell)] = Quote
    THEN LET inner == SubSeq(cell, 2, Len(cell) - 1)
             keep  == {j \in 1..Len(inner) :
                          inner[j] # Quote \/ QuotesUpTo(inner, j) % 2 = 0}
         IN  [k \in 1..Cardinality(keep) |-> inner[Nth(keep, k)]]
    ELSE cell

\* the rows of cells of a delimited text
ParseCsv(text) ==
    LET lines == Stretches(1, Len(text), Breaks(text, LineFeed))
    IN  [r \in 1..Len(lines) |->
            LET cells == Stretches(lines[r][1], lines[r][2],
                                   {i \in Breaks(text, Comma) :
                                       lines[r][1] <= i /\ i <= lines[r][2]})
            IN  [c \in 1..Len(cells) |->
                    Unquote(SubSeq(text, cells[c][1], cells[c][2]))]]

\* the values of the twelve columns of one record; a score that is null has
\* the empty text for its value
FieldValues(f) ==
    << f.nome, <<f.cpf>>, <<f.telefone>>, <<f.instagram>>,
       LocaleDateString(f.created_at),
       ElementText(f.scores[1]), ElementText(f.scores[2]),
       ElementText(f.scores[3]), ElementText(f.scores[4]),
       ElementText(f.scores[5]), ElementText(f.scores[6]),
       f.comentario >>

(* C12: reading an exported file back with the same delimiter and quoting
   rules yields the header and, for every exported record, the value of
   every one of its fields, whatever commas, quotes and line feeds the text
   fields hold. *)
C12_ExportRoundTrip ==
    [][ csv' # csv
            => ParseCsv(csv') = <<[i \in 1..Len(headers) |-> <<headers[i]>>]>>
                                    \o [i \in 1..Len(feedbacks) |-> FieldValues(feedbacks[i])]
      ]_vars

\* the list with every id kept at its first entry only
DistinctById(fb) ==
    LET first == {i \in 1..Len(fb) : \A j \in 1..(i - 1) : fb[j].id # fb[i].id}
    IN  [k \in 1..Cardinality(first) |-> fb[Nth(first, k)]]

(* C13: whenever the panel is shown, after any interleaving of the bulk load
   and the live inserts, the statistics on screen are those obtained by
   folding each record of the record set (one record per id) exactly once
   from scratch. *)
C13_StatsFoldEachRecordOnce ==
    Shown => stats = Statistics(DistinctById(feedbacks))

(* C14: an insert event whose id is stored with different field values is
   rejected and leaves the record list as it was: no step adds to the list,
   or puts in place of a stored record, a record whose id the list already
   holds with other field values. *)
C14_ConflictRejected ==
    [][ \A i \in 1..Len(feedbacks') :
            feedbacks'[i].id \in Ids(feedbacks)
                => \E j \in 1..Len(feedbacks) : feedbacks[j] = feedbacks'[i] ]_vars

(* C15: on every list of valid records, histogram bucket b (b in 1..5) is
   the number of records whose six-score sum s has floor((s + 3) / 6) = b,
   that is, whose mean rounded to the nearest integer, halves up, is b. *)
C15_HistogramCountsRoundedMeans ==
    (Shown /\ AllValid(feedbacks)) =>
        \A b \in 1..5 :
            stats.distribution[b] =
                Cardinality({i \in 1..Len(feedbacks) :
                                (ScoreSum(feedbacks[i]) + 3) \div 6 = b})

\* a record with mean 3.5 (sum 21) is counted in bucket 4, beside others
C15_Witness ==
    /\ Shown /\ AllValid(feedbacks)
    /\ Len(feedbacks) >= 2
    /\ \E i \in 1..Len(feedbacks) : ScoreSum(feedbacks[i]) = 21
    /\ stats.distribution[4] >= 1
    /\ \E b \in {1, 2, 3, 5} : stats.distribution[b] >= 1

(* C16: with an empty list the statistics are computed without an error
   value: the recurring-customer percentage is 0, the overall average is 0
   and not a quotient by zero, the five histogram buckets are 0, there are no
   per-criterion averages and neither a best nor a worst criterion. *)
C16_EmptyListStatistics ==
    (Shown /\ Len(feedbacks) = 0) =>
        /\ stats.total = 0
        /\ stats.recurrentPercentage = 0
        /\ stats.overallAverage = DoubleOf(0)
        /\ \A b \in 1..5 : stats.distribution[b] = 0
        /\ stats.averages = <<>>
        /\ stats.worst = <<>> /\ stats.best = <<>>

\* the panel shows an empty list, with an empty view
C16_Witness ==
    /\ Shown /\ Len(feedbacks) = 0
    /\ stats.total = 0
    /\ view = <<>>

\* the four customer fields are filled in and every criterion has 1 to 5 stars
FormValid(c, r) ==
    /\ \A field \in CustomerFields : c[field] # ""
    /\ \A k \in 1..6 : r.scores[k] \in 1..5

(* C17: after any sequence of field edits, star clicks and submit attempts,
   an insert is sent only from a form whose four customer fields are
   non-empty and whose six scores are in 1..5, and it carries the values of
   that form; a submit attempt rejected by the validation sends no insert,
   stores nothing and leaves the form state unchanged. *)
C17_InsertOnlyFromValidForm ==
    [][ /\ \A e \in BagToSet(awaited') :
              (e.call = "insert" /\ e.live /\ ~ e.stored
                  /\ CopiesIn(e, awaited') > CopiesIn(e, awaited))
              => /\ FormValid(customer, ratings)
                 /\ e.row = InsertObject(customer, ratings)
                 /\ \A k \in 1..6 : e.row.scores[k] \in 1..5
                 /\ customer' = customer /\ ratings' = ratings
        /\ (toastTitle' # toastTitle
              /\ toastTitle' \in {"Campos obrigatórios", "Avaliações obrigatórias"})
            => /\ ~ FormValid(customer, ratings)
               /\ customer' = customer /\ ratings' = ratings
               /\ isSubmitting' = isSubmitting /\ ~ isSubmitting
               /\ awaited' = awaited /\ db' = db ]_vars

\* an attempt without stars was rejected, the stars were given, and the
\* insert of the completed form has been sent and is awaited
C17_Witness ==
    /\ activeView = "form"
    /\ isSubmitting
    /\ toastTitle = "Avaliações obrigatórias"
    /\ \E e \in BagToSet(awaited) :
          /\ e.call = "insert" /\ e.live
          /\ e.row.cpf # "" /\ \A k \in 1..6 : e.row.scores[k] \in 1..5

====
